---- MODULE Spec2Model ----
(***************************************************************************)
(* Cluster merge engine of the news pipeline                               *)
(* (python-pipeline/utils/cluster_storage.py) and the two batch endpoints  *)
(* that drive it (python-pipeline/services/cluster_processing.py).         *)
(*                                                                         *)
(* The two MongoDB collections are sequences of documents in insertion     *)
(* (natural) order.  Every pymongo call is one atomic step of the worker   *)
(* that issues it.  A worker is one server process; processes share the    *)
(* database of core/database.py and nothing else.                          *)
(*                                                                         *)
(* Text is abstracted: a fact, a keyword, a musing is a small integer, a   *)
(* generated article is a sequence whose length is its len().  The         *)
(* fingerprint of a candidate (extract_keywords, compute_cluster_embedding)*)
(* is a function of its text and is given with the candidate.              *)
(* An embedding is a vector of rationals, kept as integer numerators over  *)
(* one common denominator.  Timestamps are whole days.                     *)
(***************************************************************************)
EXTENDS Integers, Sequences, FiniteSets, TLC

VARIABLES
    clusters,   \* db.clusters: sequence of cluster documents
    articles,   \* db.articles: sequence of article documents
    now,        \* datetime.now(), in days
    call,       \* per worker: the frame of its store_or_merge_cluster call
    last,       \* per worker: what its last finished call did
    batch,      \* per worker: the frame of its batch endpoint
    calls,      \* number of store_or_merge_cluster calls started so far
    nlp         \* the frame of the NLP stage (clusterer, extractor) at work

vars == <<clusters, articles, now, call, last, batch, calls, nlp>>

---------------------------------------------------------------------------
(* Bounds of the model *)

MaxCalls == 2
MaxGateCalls == 3
MaxConcCalls == 3
MaxLifeCalls == 4
MaxBatch == 3
MaxArticles == 3
MaxBullets == 3
MaxSentences == 16

(* Program constants *)

DaysBack == 7
TopK == 5

Workers == {1, 2}

---------------------------------------------------------------------------
(* Generic helpers *)

Range(s) == {s[i] : i \in 1..Len(s)}

Max2(a, b) == IF a >= b THEN a ELSE b

RECURSIVE GCD(_, _)
GCD(a, b) == IF b = 0 THEN a ELSE GCD(b, a % b)

RECURSIVE GCDSeq(_)
GCDSeq(s) == IF s = <<>> THEN 0 ELSE GCD(Head(s), GCDSeq(Tail(s)))

RECURSIVE SumSeq(_)
SumSeq(s) == IF s = <<>> THEN 0 ELSE Head(s) + SumSeq(Tail(s))

\* Largest r with r * r <= q, for 0 <= q <= 10000.
ISqrt(q) == CHOOSE r \in 0..100 : r * r <= q /\ (r + 1) * (r + 1) > q

\* The elements of a finite set of integers in increasing order.
RECURSIVE SortedSeq(_)
SortedSeq(S) ==
    IF S = {} THEN <<>>
    ELSE LET m == CHOOSE x \in S : \A y \in S : x <= y
         IN  <<m>> \o SortedSeq(S \ {m})

NoDup(s) == \A i, j \in 1..Len(s) : i # j => s[i] # s[j]

---------------------------------------------------------------------------
(* Embeddings: [num |-> <<n1, ..., nk>>, den |-> d] is the vector          *)
(* <<n1/d, ..., nk/d>>, in lowest terms.  The empty list is the vector of  *)
(* length 0.                                                                *)

Emb(num, den) ==
    LET g == GCD(GCDSeq(num), den)
    IN  [num |-> [i \in 1..Len(num) |-> num[i] \div g], den |-> den \div g]

Dim(e) == Len(e.num)

Dot(a, b) == SumSeq([i \in 1..Len(a) |-> a[i] * b[i]])

\* sklearn cosine_similarity of two rows, in hundredths, rounded down.  A row
\* of zeros has similarity 0 with everything (normalize() leaves it zero).
\* The denominators are positive scalars and cancel.
CosineSimilarity(a, b) ==
    LET na == Dot(a.num, a.num)
        nb == Dot(b.num, b.num)
        ab == Dot(a.num, b.num)
    IN  IF na = 0 \/ nb = 0 THEN 0
        ELSE ISqrt((ab * ab * 10000) \div (na * nb))

---------------------------------------------------------------------------
(* find_similar_clusters: scores in thousandths *)

KeywordWeight == 400
EmbeddingWeight == 600
SimilarityThreshold == 800

\* The keyword overlap added to the score without its weight.
KeywordSimilarityUnweighted(keywords, cluster_keywords) ==
    IF keywords # <<>> /\ cluster_keywords # <<>>
    THEN (1000 * Cardinality(Range(keywords) \cap Range(cluster_keywords)))
             \div Max2(Len(keywords), Len(cluster_keywords))
    ELSE 0

KeywordSimilarity(keywords, cluster_keywords) ==
    IF keywords # <<>> /\ cluster_keywords # <<>>
    THEN (KeywordWeight * Cardinality(Range(keywords) \cap Range(cluster_keywords)))
             \div Max2(Len(keywords), Len(cluster_keywords))
    ELSE 0

\* The cosine added to the score without its weight.
EmbeddingSimilarityUnweighted(new_cluster_embedding, cluster_embedding) ==
    IF Dim(cluster_embedding) > 0 /\ Dim(new_cluster_embedding) > 0
       /\ Dim(cluster_embedding) = Dim(new_cluster_embedding)
    THEN CosineSimilarity(new_cluster_embedding, cluster_embedding)
    ELSE 0

\* The term without the test of the lengths: the longer embedding is cut to
\* the length of the shorter one.
EmbeddingSimilarityTruncated(new_cluster_embedding, cluster_embedding) ==
    LET m == IF Dim(cluster_embedding) < Dim(new_cluster_embedding)
             THEN Dim(cluster_embedding) ELSE Dim(new_cluster_embedding)
        cut(e) == [e EXCEPT !.num = SubSeq(@, 1, m)]
    IN  IF m > 0
        THEN (EmbeddingWeight * CosineSimilarity(cut(new_cluster_embedding),
                                                 cut(cluster_embedding))) \div 100
        ELSE 0

EmbeddingSimilarity(new_cluster_embedding, cluster_embedding) ==
    IF Dim(cluster_embedding) > 0 /\ Dim(new_cluster_embedding) > 0
       /\ Dim(cluster_embedding) = Dim(new_cluster_embedding)
    THEN (EmbeddingWeight * CosineSimilarity(new_cluster_embedding, cluster_embedding))
             \div 100
    ELSE 0

SimilarityScore(new_cluster_embedding, keywords, cluster) ==
    KeywordSimilarity(keywords, cluster.keywords)
        + EmbeddingSimilarity(new_cluster_embedding, cluster.embedding)

\* The comparison with the cutoff the wrong way round.
InWindowReversed(cluster, t) == cluster.created_at <= t - DaysBack

\* The window taken on the time of the last update instead.
InWindowByUpdate(cluster, t) == cluster.updated_at >= t - DaysBack

\* {"created_at": {"$gte": cutoff_date}}
InWindow(cluster, t) == cluster.created_at >= t - DaysBack

\* The hits left in scan order, the sort forgotten.
SortByScoreScanOrder(s) == s

\* list.sort(key=similarity_score, reverse=True): stable, so equal scores keep
\* their scan order.
RECURSIVE SortByScore(_)
SortByScore(s) ==
    IF s = <<>> THEN <<>>
    ELSE LET rest == SortByScore(Tail(s))
             h == Head(s)
             before == SelectSeq(rest, LAMBDA x : x.similarity_score > h.similarity_score)
             after == SelectSeq(rest, LAMBDA x : x.similarity_score <= h.similarity_score)
         IN  before \o <<h>> \o after

Matches(new_cluster_embedding, keywords, cluster) ==
    SimilarityScore(new_cluster_embedding, keywords, cluster) >= SimilarityThreshold

FindSimilarClusters(db, new_cluster_embedding, keywords, t) ==
    LET recent == SelectSeq(db, LAMBDA c : InWindow(c, t))
        hits == SelectSeq(recent, LAMBDA c : Matches(new_cluster_embedding, keywords, c))
        similar == [i \in 1..Len(hits) |->
                       [cluster_id |-> hits[i]._id,
                        similarity_score |->
                            SimilarityScore(new_cluster_embedding, keywords, hits[i])]]
        sorted == SortByScore(similar)
    IN  SubSeq(sorted, 1, IF Len(sorted) < TopK THEN Len(sorted) ELSE TopK)

---------------------------------------------------------------------------
(* Documents.  0 stands for None and for the empty string: both are falsy  *)
(* in the tests "if article.source" and "if article.url".                   *)

\* ObjectId(): unique per inserted document.  n is the number of the call
\* that inserts, k the position of the document within the call (0 for the
\* cluster document).
ObjectId(n, k) == n * 10 + k

\* list(set(xs)): the distinct elements.  Python leaves the order of the list
\* unspecified; the model keeps it sorted and no operator reads the order.
ListSet(xs) == SortedSeq(Range(xs))

Truthy(xs) == SelectSeq(xs, LAMBDA x : x # 0)

ArticleUrls(arts) == Truthy([i \in 1..Len(arts) |-> arts[i].url])

ArticleSources(arts) == Truthy([i \in 1..Len(arts) |-> arts[i].source])

\* sources = list(set([article.source for article in articles if article.source]))
NewSources(arts) == ListSet(ArticleSources(arts))

\* The lookup restricted to the articles that already have an owner.
FindArticleOwned(db, a) ==
    LET hit == SelectSeq(db, LAMBDA d : d.title = a.title /\ d.source = a.source
                                          /\ d.cluster_id # 0)
    IN  IF hit = <<>> THEN 0 ELSE hit[1]._id

\* articles_collection.find_one({"title": ..., "source": ...}): the _id of the
\* first stored article with that title and source, 0 when there is none.
FindArticle(db, a) ==
    LET hit == SelectSeq(db, LAMBDA d : d.title = a.title /\ d.source = a.source)
    IN  IF hit = <<>> THEN 0 ELSE hit[1]._id

ArticleDoc(id, a, owner) ==
    [_id |-> id, title |-> a.title, source |-> a.source, cluster_id |-> owner]

\* clusters_collection.find_one({"_id": id}): <<doc>>, or <<>> when there is none.
FindCluster(db, id) == SelectSeq(db, LAMBDA c : c._id = id)

\* The cluster document _create_new_cluster inserts.
ClusterDoc(id, c, article_ids, t) ==
    [_id |-> id,
     facts |-> c.cluster_result.facts,
     musings |-> c.cluster_result.musings,
     generated_article |-> c.cluster_result.generated_article,
     articles_count |-> c.cluster_result.articles_count,
     sources |-> c.cluster_result.sources,
     article_urls |-> c.cluster_result.article_urls,
     article_ids |-> article_ids,
     keywords |-> c.keywords,
     embedding |-> c.embedding,
     created_at |-> t,
     updated_at |-> t]

\* Centroid of a merge: the mean of the two vectors when the stored one is not
\* empty and has the candidate's length, else the candidate's vector.
MergedEmbedding(existing_embedding, new_embedding) ==
    IF Dim(existing_embedding) > 0 /\ Dim(existing_embedding) = Dim(new_embedding)
    THEN Emb([i \in 1..Dim(new_embedding) |->
                 existing_embedding.num[i] * new_embedding.den
                     + new_embedding.num[i] * existing_embedding.den],
             2 * existing_embedding.den * new_embedding.den)
    ELSE new_embedding

\* list(existing + new), without the set: duplicates stay.
MergedListConcat(existing_list, new_list) == existing_list \o new_list

\* list(set(new)): the stored list is overwritten, not extended.
MergedListNewOnly(existing_list, new_list) == ListSet(new_list)

\* list(set(existing + new))
MergedList(existing_list, new_list) == ListSet(existing_list \o new_list)

\* update_doc with the candidate's generated article whatever its length.
UpdateDocNarrativeAlways(existing_cluster, c, new_article_ids, t) ==
    [keywords |-> MergedList(existing_cluster.keywords, c.keywords),
     facts |-> MergedList(existing_cluster.facts, c.cluster_result.facts),
     musings |-> MergedList(existing_cluster.musings, c.cluster_result.musings),
     sources |-> MergedList(existing_cluster.sources, NewSources(c.articles)),
     article_ids |-> MergedList(existing_cluster.article_ids, new_article_ids),
     article_urls |-> MergedList(existing_cluster.article_urls, ArticleUrls(c.articles)),
     embedding |-> MergedEmbedding(existing_cluster.embedding, c.embedding),
     updated_at |-> t,
     set_generated_article |-> TRUE,
     generated_article |-> c.cluster_result.generated_article]

\* update_doc of _merge_with_existing_cluster, computed from the document
\* read at the start of the merge.
UpdateDoc(existing_cluster, c, new_article_ids, t) ==
    [keywords |-> MergedList(existing_cluster.keywords, c.keywords),
     facts |-> MergedList(existing_cluster.facts, c.cluster_result.facts),
     musings |-> MergedList(existing_cluster.musings, c.cluster_result.musings),
     sources |-> MergedList(existing_cluster.sources, NewSources(c.articles)),
     article_ids |-> MergedList(existing_cluster.article_ids, new_article_ids),
     article_urls |-> MergedList(existing_cluster.article_urls, ArticleUrls(c.articles)),
     embedding |-> MergedEmbedding(existing_cluster.embedding, c.embedding),
     updated_at |-> t,
     set_generated_article |->
         Len(c.cluster_result.generated_article) > Len(existing_cluster.generated_article),
     generated_article |-> c.cluster_result.generated_article]

\* The $set with created_at among its fields.
ApplySetWithCreatedAt(doc, u) ==
    [doc EXCEPT
        !.keywords = u.keywords,
        !.facts = u.facts,
        !.musings = u.musings,
        !.sources = u.sources,
        !.articles_count = Len(u.article_ids),
        !.article_ids = u.article_ids,
        !.article_urls = u.article_urls,
        !.embedding = u.embedding,
        !.updated_at = u.updated_at,
        !.created_at = u.updated_at,
        !.generated_article =
            IF u.set_generated_article THEN u.generated_article ELSE @]

\* The effect of {"$set": update_doc} on a stored document.
ApplySet(doc, u) ==
    [doc EXCEPT
        !.keywords = u.keywords,
        !.facts = u.facts,
        !.musings = u.musings,
        !.sources = u.sources,
        !.articles_count = Len(u.article_ids),
        !.article_ids = u.article_ids,
        !.article_urls = u.article_urls,
        !.embedding = u.embedding,
        !.updated_at = u.updated_at,
        !.generated_article =
            IF u.set_generated_article THEN u.generated_article ELSE @]

\* clusters_collection.update_one({"_id": id}, {"$set": update_doc})
UpdateOne(db, id, u) ==
    [k \in 1..Len(db) |-> IF db[k]._id = id THEN ApplySet(db[k], u) ELSE db[k]]

\* The update that matches no article.
UpdateManyNone(db, ids, owner) == db

\* articles_collection.update_many({"_id": {"$in": ids}}, {"$set": {"cluster_id": owner}})
UpdateMany(db, ids, owner) ==
    [k \in 1..Len(db) |->
        IF db[k]._id \in Range(ids) THEN [db[k] EXCEPT !.cluster_id = owner] ELSE db[k]]

---------------------------------------------------------------------------
(* Inputs: articles, texts and the candidate clusters built from them *)

Article(title, source, url) == [title |-> title, source |-> source, url |-> url]

\* Two articles with the same title and source under different URLs, and one
\* from another source without a URL.
ArticleLists ==
    {<<Article(1, 1, 1)>>,
     <<Article(2, 2, 0)>>,
     <<Article(1, 1, 1), Article(1, 1, 2)>>,
     <<Article(1, 1, 1), Article(2, 2, 0)>>}

Text(facts, musings, generated_article, keywords, embedding) ==
    [facts |-> facts, musings |-> musings, generated_article |-> generated_article,
     keywords |-> keywords, embedding |-> embedding]

\* Texts of one story: equal or overlapping keywords, embeddings within the
\* merge threshold of each other.
StoryTexts ==
    {Text(<<1>>, <<1>>, <<1>>, <<1, 2>>, Emb(<<2, 0>>, 1)),
     Text(<<1, 2>>, <<1, 2, 2>>, <<1, 1>>, <<1, 2>>, Emb(<<1, 1>>, 1)),
     Text(<<3>>, <<>>, <<>>, <<1>>, Emb(<<1, 0>>, 1))}

\* Texts around the similarity gate: three with the same keywords whose
\* embeddings are close or far from each other, one with no keyword and a
\* zero embedding (a text of stop words only), and another story altogether.
GateTexts ==
    {Text(<<1>>, <<>>, <<1>>, <<1, 2>>, Emb(<<1, 0>>, 1)),
     Text(<<2>>, <<>>, <<1>>, <<1, 2>>, Emb(<<1, 2>>, 1)),
     Text(<<3>>, <<>>, <<1>>, <<1, 2>>, Emb(<<1, 1>>, 1)),
     Text(<<>>, <<>>, <<>>, <<>>, Emb(<<0, 0>>, 1)),
     Text(<<4>>, <<>>, <<1>>, <<3>>, Emb(<<0, 1>>, 1))}

\* dict.fromkeys(sources): the distinct elements in order of first appearance.
RECURSIVE UniqueInOrder(_)
UniqueInOrder(xs) ==
    IF xs = <<>> THEN <<>>
    ELSE LET front == UniqueInOrder(SubSeq(xs, 1, Len(xs) - 1))
             x == xs[Len(xs)]
         IN  IF x \in Range(front) THEN front ELSE Append(front, x)

\* The ClusterResult process_articles builds for a group of articles, and the
\* candidate handed to store_or_merge_cluster: that result, the articles
\* _group_articles_by_cluster pairs with it, and its fingerprint.
ClusterResult(group, text) ==
    [articles_count |-> Len(group),
     facts |-> text.facts,
     musings |-> text.musings,
     generated_article |-> text.generated_article,
     sources |-> UniqueInOrder(ArticleSources(group)),
     article_urls |-> ArticleUrls(group)]

Candidate(arts, group, text) ==
    [articles |-> arts,
     cluster_result |-> ClusterResult(group, text),
     keywords |-> text.keywords,
     embedding |-> text.embedding]

Candidates(texts) == {Candidate(arts, arts, t) : arts \in ArticleLists, t \in texts}

GateCandidates == {Candidate(<<Article(1, 1, 1)>>, <<Article(1, 1, 1)>>, t) : t \in GateTexts}

---------------------------------------------------------------------------
(* State *)

IdleCall ==
    [pc |-> "idle", n |-> 0, cand |-> <<>>, force_new |-> FALSE, similar |-> <<>>,
     target |-> 0, branch |-> "", existing |-> <<>>, article_ids |-> <<>>, i |-> 0,
     pre |-> <<>>, pre_articles |-> <<>>, search_failed |-> FALSE]

NoCall == [action |-> "none", cluster_id |-> 0, cand |-> <<>>, force_new |-> FALSE,
           similar |-> <<>>, pre |-> <<>>, pre_articles |-> <<>>,
           search_failed |-> FALSE, before |-> <<>>, after |-> <<>>,
           existing |-> <<>>, article_ids |-> <<>>, at |-> 0]

IdleBatch ==
    [pc |-> "idle", endpoint |-> "", force_new |-> FALSE, queue |-> <<>>, handed |-> 0,
     storage_results |-> <<>>, clusters_stored |-> 0, clusters_merged |-> 0,
     raised |-> 0]

IdleNlp == [pc |-> "idle"]

Init ==
    /\ clusters = <<>>
    /\ articles = <<>>
    /\ now = 0
    /\ call = [w \in Workers |-> IdleCall]
    /\ last = [w \in Workers |-> NoCall]
    /\ batch = [w \in Workers |-> IdleBatch]
    /\ calls = 0
    /\ nlp = IdleNlp

---------------------------------------------------------------------------
(* The batch endpoints' bookkeeping of one finished call *)

StorageResult(action, cluster_id, cand) ==
    [action |-> action, cluster_id |-> cluster_id,
     articles_count |-> Len(cand.articles)]

\* process_articles_with_storage: the try body appends the outcome, the except
\* clause appends a "failed" entry.
RecordProcess(b, action, cluster_id, cand) ==
    [b EXCEPT
        !.clusters_stored = IF action = "created" THEN @ + 1 ELSE @,
        !.clusters_merged = IF action = "merged" THEN @ + 1 ELSE @,
        !.storage_results = Append(@, StorageResult(action, cluster_id, cand))]

\* scrape_process_and_store: the try body appends the outcome, the except
\* clause logs and continues.
RecordScrape(b, action, cluster_id, cand) ==
    IF action = "failed" THEN b
    ELSE [b EXCEPT
            !.clusters_stored = IF action = "created" THEN @ + 1 ELSE @,
            !.clusters_merged = IF action = "merged" THEN @ + 1 ELSE @,
            !.storage_results = Append(@, StorageResult(action, cluster_id, cand))]

\* raised counts the calls of the batch that raised (kept for the properties;
\* the endpoints keep no such counter).
Record(b, action, cluster_id, cand) ==
    IF b.pc # "storing" THEN b
    ELSE LET counted == [b EXCEPT !.raised = IF action = "failed" THEN @ + 1 ELSE @]
         IN  IF b.endpoint = "process_articles_with_storage"
             THEN RecordProcess(counted, action, cluster_id, cand)
             ELSE RecordScrape(counted, action, cluster_id, cand)

---------------------------------------------------------------------------
(* store_or_merge_cluster, one pymongo call per step *)

\* The call returns (cluster_id, action) or raises ("failed"): its frame is
\* dropped and the caller's loop, if any, records the outcome.  last keeps
\* the call for the properties below: before and after are the target
\* document (as <<doc>>, <<>> when absent) around the call's write.
Return(w, action, cluster_id, before, after) ==
    /\ last' = [last EXCEPT ![w] =
                   [action |-> action, cluster_id |-> cluster_id,
                    cand |-> call[w].cand, force_new |-> call[w].force_new,
                    similar |-> call[w].similar, pre |-> call[w].pre,
                    pre_articles |-> call[w].pre_articles,
                    search_failed |-> call[w].search_failed,
                    before |-> before, after |-> after,
                    existing |-> call[w].existing,
                    article_ids |-> call[w].article_ids, at |-> now]]
    /\ call' = [call EXCEPT ![w] = IdleCall]
    /\ batch' = [batch EXCEPT ![w] = Record(@, action, cluster_id, call[w].cand)]

\* The call with the test of force_new left out: the search always runs.
EnterForceIgnored(w, c, fn, search_ok, d) ==
    LET similar == IF ~search_ok THEN <<>>
                   ELSE FindSimilarClusters(clusters, c.embedding, c.keywords, now + d)
        merge == similar # <<>>
    IN  /\ call[w].pc = "idle"
        /\ now' = now + d
        /\ calls' = calls + 1
        /\ call' = [call EXCEPT ![w] =
               [pc |-> IF merge THEN "merge_find_one" ELSE "article_find_one",
                n |-> calls + 1, cand |-> c, force_new |-> fn, similar |-> similar,
                target |-> IF merge THEN similar[1].cluster_id ELSE 0,
                branch |-> IF merge THEN "merge" ELSE "create",
                existing |-> <<>>, article_ids |-> <<>>, i |-> 1,
                pre |-> clusters, pre_articles |-> articles,
                search_failed |-> ~fn /\ ~search_ok]]

\* Lines 68-93, entered d days after the last event: fingerprint, candidate
\* search (one find over the collection; an error in it is swallowed by
\* find_similar_clusters, which then returns []), choice of the branch.
Enter(w, c, fn, search_ok, d) ==
    LET similar == IF fn \/ ~search_ok THEN <<>>
                   ELSE FindSimilarClusters(clusters, c.embedding, c.keywords, now + d)
        merge == similar # <<>>
    IN  /\ call[w].pc = "idle"
        /\ now' = now + d
        /\ calls' = calls + 1
        /\ call' = [call EXCEPT ![w] =
               [pc |-> IF merge THEN "merge_find_one" ELSE "article_find_one",
                n |-> calls + 1, cand |-> c, force_new |-> fn, similar |-> similar,
                target |-> IF merge THEN similar[1].cluster_id ELSE 0,
                branch |-> IF merge THEN "merge" ELSE "create",
                existing |-> <<>>, article_ids |-> <<>>, i |-> 1,
                pre |-> clusters, pre_articles |-> articles,
                search_failed |-> ~fn /\ ~search_ok]]

\* A call made outside the endpoints' loops, with a candidate of cands and
\* force_new of forces, up to max calls in all.
StoreOrMergeCluster(w, cands, forces, delays, max) ==
    /\ UNCHANGED nlp
    /\ batch[w].pc # "storing"
    /\ calls < max
    /\ \E c \in cands, fn \in forces, d \in delays : Enter(w, c, fn, TRUE, d)
    /\ UNCHANGED <<clusters, articles, last, batch>>

\* Line 206: read the merge target.
MergeFindOne(w) ==
    /\ UNCHANGED nlp
    /\ call[w].pc = "merge_find_one"
    /\ LET found == FindCluster(clusters, call[w].target)
       IN  IF found = <<>>
           THEN /\ Return(w, "failed", 0, <<>>, <<>>)
                /\ UNCHANGED <<clusters, articles, now, calls>>
           ELSE /\ call' = [call EXCEPT ![w].pc = "article_find_one",
                                        ![w].existing = found[1]]
                /\ UNCHANGED <<clusters, articles, now, last, batch, calls>>

AfterArticle(c, i) ==
    IF i < Len(c.cand.articles) THEN "article_find_one"
    ELSE IF c.branch = "merge" THEN "merge_update_one" ELSE "create_insert_one"

\* Lines 133 and 224: look the article up by title and source.
ArticleFindOne(w) ==
    /\ UNCHANGED nlp
    /\ call[w].pc = "article_find_one"
    /\ LET c == call[w]
           id == FindArticle(articles, c.cand.articles[c.i])
       IN  call' = [call EXCEPT ![w] =
               IF id = 0 THEN [c EXCEPT !.pc = "article_insert_one"]
               ELSE [c EXCEPT !.pc = AfterArticle(c, c.i),
                              !.article_ids = Append(@, id),
                              !.i = @ + 1]]
    /\ UNCHANGED <<clusters, articles, now, last, batch, calls>>

\* Lines 137 and 230: insert the article; the merge branch writes the owner
\* with it, the create branch leaves it to the back-reference.
ArticleInsertOne(w) ==
    /\ UNCHANGED nlp
    /\ call[w].pc = "article_insert_one"
    /\ LET c == call[w]
           id == ObjectId(c.n, c.i)
       IN  /\ articles' = Append(articles,
                  ArticleDoc(id, c.cand.articles[c.i],
                             IF c.branch = "merge" THEN c.target ELSE 0))
           /\ call' = [call EXCEPT ![w] =
                  [c EXCEPT !.pc = AfterArticle(c, c.i),
                            !.article_ids = Append(@, id),
                            !.i = @ + 1]]
    /\ UNCHANGED <<clusters, now, last, batch, calls>>

\* Lines 235-281: the update computed from the document read at line 206.
MergeUpdateOne(w) ==
    /\ UNCHANGED nlp
    /\ call[w].pc = "merge_update_one"
    /\ LET c == call[w]
           u == UpdateDoc(c.existing, c.cand, c.article_ids, now)
           before == FindCluster(clusters, c.target)
       IN  /\ clusters' = UpdateOne(clusters, c.target, u)
           /\ Return(w, "merged", c.target, before, FindCluster(clusters', c.target))
    /\ UNCHANGED <<articles, now, calls>>

\* Lines 157-180: insert the cluster document.
CreateInsertOne(w) ==
    /\ UNCHANGED nlp
    /\ call[w].pc = "create_insert_one"
    /\ LET c == call[w]
       IN  /\ clusters' = Append(clusters,
                  ClusterDoc(ObjectId(c.n, 0), c.cand, c.article_ids, now))
           /\ call' = [call EXCEPT ![w].pc = "create_update_many"]
    /\ UNCHANGED <<articles, now, last, batch, calls>>

\* Lines 183-189: back-reference the articles.
CreateUpdateMany(w) ==
    /\ UNCHANGED nlp
    /\ call[w].pc = "create_update_many"
    /\ LET c == call[w]
       IN  /\ articles' = UpdateMany(articles, c.article_ids, ObjectId(c.n, 0))
           /\ Return(w, "created", ObjectId(c.n, 0), <<>>,
                     FindCluster(clusters, ObjectId(c.n, 0)))
    /\ UNCHANGED <<clusters, now, calls>>

\* The pymongo call of the current step raises: lines 191-193, 283-285 and
\* 106-108 pass the exception on to the caller.
Raise(w) ==
    /\ UNCHANGED nlp
    /\ call[w].pc # "idle"
    /\ Return(w, "failed", 0, <<>>, <<>>)
    /\ UNCHANGED <<clusters, articles, now, calls>>

Step(w) ==
    \/ MergeFindOne(w)
    \/ ArticleFindOne(w)
    \/ ArticleInsertOne(w)
    \/ MergeUpdateOne(w)
    \/ CreateInsertOne(w)
    \/ CreateUpdateMany(w)

---------------------------------------------------------------------------
(* One process, calls of one story one after the other, no storage error *)

Delays == {0, 1}

Next ==
    \/ StoreOrMergeCluster(1, Candidates(StoryTexts), BOOLEAN, Delays, MaxCalls)
    \/ Step(1)

Spec == Init /\ [][Next]_vars

---------------------------------------------------------------------------
(* One process, candidates around the similarity gate, arriving at once or *)
(* after the recency window has passed, never forced new                    *)

GateDelays == {0, DaysBack + 1}

NextGate ==
    \/ StoreOrMergeCluster(1, GateCandidates, {FALSE}, GateDelays, MaxGateCalls)
    \/ Step(1)

SpecGate == Init /\ [][NextGate]_vars

---------------------------------------------------------------------------
(* Two server processes on the same database: the calls of one process run *)
(* one after the other (store_or_merge_cluster never yields inside its     *)
(* event loop), the pymongo calls of two processes interleave freely.      *)

ConcTexts ==
    {Text(<<1>>, <<1>>, <<1>>, <<1, 2>>, Emb(<<1, 0>>, 1)),
     Text(<<2>>, <<2>>, <<1>>, <<1, 2, 3>>, Emb(<<1, 0>>, 1)),
     Text(<<3>>, <<3>>, <<1>>, <<1, 2, 4>>, Emb(<<1, 0>>, 1))}

ConcCandidates ==
    {Candidate(<<Article(t.facts[1], t.facts[1], t.facts[1])>>,
               <<Article(t.facts[1], t.facts[1], t.facts[1])>>, t) : t \in ConcTexts}

NextConc ==
    \E w \in Workers :
        \/ StoreOrMergeCluster(w, ConcCandidates, {FALSE}, {0}, MaxConcCalls)
        \/ Step(w)

SpecConc == Init /\ [][NextConc]_vars

\* Two processes with one call each.
MaxTwinCalls == 2

NextTwin ==
    \E w \in Workers :
        \/ StoreOrMergeCluster(w, ConcCandidates, {FALSE}, {0}, MaxTwinCalls)
        \/ Step(w)

SpecTwin == Init /\ [][NextTwin]_vars

---------------------------------------------------------------------------
(* One batch of an endpoint: the loop over the candidate clusters, any      *)
(* pymongo call of which may raise                                          *)

Endpoints == {"process_articles_with_storage", "scrape_process_and_store"}

BatchTexts ==
    {Text(<<1>>, <<>>, <<1>>, <<1, 2>>, Emb(<<1, 0>>, 1)),
     Text(<<2>>, <<>>, <<1>>, <<3>>, Emb(<<0, 1>>, 1))}

BatchCandidates ==
    {Candidate(<<Article(t.facts[1], t.facts[1], t.facts[1])>>,
               <<Article(t.facts[1], t.facts[1], t.facts[1])>>, t) : t \in BatchTexts}

\* clustered_articles: the candidates of one request, MaxBatch at most.
Batches == UNION {[1..n -> BatchCandidates] : n \in 1..MaxBatch}

\* The endpoint has clustered the articles and enters its storage loop.
BatchStart(w) ==
    /\ UNCHANGED nlp
    /\ batch[w].pc = "idle"
    /\ call[w].pc = "idle"
    /\ \E e \in Endpoints, q \in Batches :
           batch' = [batch EXCEPT ![w] =
               [IdleBatch EXCEPT !.pc = "storing", !.endpoint = e,
                                 !.queue = q, !.handed = Len(q)]]
    /\ UNCHANGED <<clusters, articles, now, call, last, calls>>

\* One turn of the loop: the next candidate is handed to
\* store_or_merge_cluster.
BatchCall(w) ==
    /\ UNCHANGED nlp
    /\ batch[w].pc = "storing"
    /\ batch[w].queue # <<>>
    /\ \E search_ok \in BOOLEAN :
           Enter(w, Head(batch[w].queue), batch[w].force_new, search_ok, 0)
    /\ batch' = [batch EXCEPT ![w].queue = Tail(@)]
    /\ UNCHANGED <<clusters, articles, last>>

\* The loop is over: the endpoint returns its response.
BatchReturn(w) ==
    /\ UNCHANGED nlp
    /\ batch[w].pc = "storing"
    /\ batch[w].queue = <<>>
    /\ call[w].pc = "idle"
    /\ batch' = [batch EXCEPT ![w].pc = "returned"]
    /\ UNCHANGED <<clusters, articles, now, call, last, calls>>

NextBatch ==
    \/ BatchStart(1)
    \/ BatchCall(1)
    \/ BatchReturn(1)
    \/ Step(1)
    \/ Raise(1)

SpecBatch == Init /\ [][NextBatch]_vars

---------------------------------------------------------------------------
(* One process, a story that comes back day after day: a cluster is merged  *)
(* into several times.  One text comes with an embedding of another length. *)

LifeTexts ==
    {Text(<<1>>, <<>>, <<1>>, <<1, 2>>, Emb(<<1, 0>>, 1)),
     Text(<<2>>, <<>>, <<1, 1>>, <<1, 2>>, Emb(<<1, 1>>, 1)),
     Text(<<3>>, <<>>, <<2>>, <<1, 2>>, Emb(<<2, 1>>, 1)),
     Text(<<4>>, <<>>, <<>>, <<1, 2>>, Emb(<<1, 0, 0>>, 1))}

LifeCandidates == {Candidate(<<Article(1, 1, 1)>>, <<Article(1, 1, 1)>>, t) : t \in LifeTexts}

NextLife ==
    \/ StoreOrMergeCluster(1, LifeCandidates, {FALSE}, Delays, MaxLifeCalls)
    \/ Step(1)

SpecLife == Init /\ [][NextLife]_vars

\* One process storing single-article candidates half a window apart, so that
\* a cluster can be merged into while it is recent and be searched for again
\* once its creation has left the window.
MaxWindowCalls == 3

WindowDelays == {0, DaysBack \div 2 + 1}

NextWindow ==
    \/ StoreOrMergeCluster(1, GateCandidates, {FALSE}, WindowDelays, MaxWindowCalls)
    \/ Step(1)

SpecWindow == Init /\ [][NextWindow]_vars

\* One process storing single-article candidates, forced or not, so that two
\* clusters of one fingerprint are persisted and a third candidate ties on them.
MaxTieCalls == 3

NextTie ==
    \/ StoreOrMergeCluster(1, GateCandidates, BOOLEAN, Delays, MaxTieCalls)
    \/ Step(1)

SpecTie == Init /\ [][NextTie]_vars

---------------------------------------------------------------------------
(* The retention sweep (cluster_storage.py, cleanup_old_clusters) *)

\* days_to_keep: the default of the sweep and the least value the endpoint
\* accepts.
DaysToKeep == 30

MinDaysToKeep == 7

\* clusters_collection.find({"created_at": {"$lt": cutoff_date}}): the ids of
\* the clusters created before the cutoff.
OldClusters(db, t, days_to_keep) ==
    {db[k]._id : k \in {j \in 1..Len(db) : db[j].created_at < t - days_to_keep}}

\* articles_collection.delete_many({"cluster_id": id}), for every id of ids.
DeleteMany(db, ids) == SelectSeq(db, LAMBDA a : a.cluster_id \notin ids)

\* clusters_collection.delete_one({"_id": id}), for every id of ids.
DeleteOne(db, ids) == SelectSeq(db, LAMBDA c : c._id \notin ids)

\* What a sweep leaves in the history of w.
SweepResult(days_to_keep, t, old, after, after_articles) ==
    [action |-> "swept", cluster_id |-> 0, cand |-> <<>>, force_new |-> FALSE,
     similar |-> <<>>, pre |-> clusters, pre_articles |-> articles,
     search_failed |-> FALSE, before |-> <<>>, after |-> after, after_articles |-> after_articles,
     existing |-> <<>>, article_ids |-> <<>>, at |-> t,
     days_to_keep |-> days_to_keep, deleted_count |-> Cardinality(old)]

\* Lines 547-574, run d days after the last event by a process that is in no
\* call of the engine: the old clusters are read, then for each of them its
\* articles by back-reference and the cluster itself are deleted.
CleanupOldClusters(w, keeps, max) ==
    /\ UNCHANGED nlp
    /\ call[w].pc = "idle"
    /\ batch[w].pc # "storing"
    /\ \E days_to_keep \in keeps : \E d \in {0, days_to_keep} :
           LET old == OldClusters(clusters, now + d, days_to_keep)
           IN  /\ now + d <= max
               /\ now' = now + d
               /\ articles' = DeleteMany(articles, old)
               /\ clusters' = DeleteOne(clusters, old)
               /\ last' = [last EXCEPT ![w] =
                      SweepResult(days_to_keep, now + d, old, clusters', articles')]
    /\ UNCHANGED <<call, batch, calls>>

\* One process storing candidates of two stories with one article each, and
\* sweeping.
MaxSweepCalls == 3

MaxSweepDay == 31

SweepTexts ==
    {Text(<<1>>, <<>>, <<1>>, <<1, 2>>, Emb(<<1, 0>>, 1)),
     Text(<<4>>, <<>>, <<1>>, <<3>>, Emb(<<0, 1>>, 1))}

SweepCandidates ==
    {Candidate(arts, arts, t) :
        arts \in {<<Article(1, 1, 1)>>, <<Article(2, 2, 0)>>}, t \in SweepTexts}

NextSweep ==
    \/ StoreOrMergeCluster(1, SweepCandidates, {FALSE}, Delays, MaxSweepCalls)
    \/ Step(1)
    \/ CleanupOldClusters(1, {MinDaysToKeep, DaysToKeep}, MaxSweepDay)

SpecSweep == Init /\ [][NextSweep]_vars

---------------------------------------------------------------------------
(* The batch clusterer: NLPProcessor.process_articles over                  *)
(* ArticleClusterer.cluster.  Articles are their positions 1..n in the      *)
(* request; n_clusters = 0 stands for None.  KMeans is not modelled: its    *)
(* labels are any assignment of the articles to 0..k-1 for a batch of at    *)
(* most MaxArticles articles, and one assignment in turn for the larger     *)
(* batches that exercise the clamp.                                         *)

MinClusters == 3
MaxClusters == 15

Min2(a, b) == IF a <= b THEN a ELSE b

\* The count without the cap by the number of articles.
EffectiveClustersUncapped(n_clusters, n) ==
    IF n_clusters = 0
    THEN Min2(Max2(MinClusters, n \div 20), MaxClusters)
    ELSE n_clusters

\* clustering.py lines 21-28: the n_clusters handed to KMeans.
EffectiveClusters(n_clusters, n) ==
    LET k == IF n_clusters = 0
             THEN Min2(Max2(MinClusters, n \div 20), MaxClusters)
             ELSE n_clusters
    IN  Min2(k, n)

\* np.ones in place of np.zeros.
FallbackLabelsOnes(n) == [i \in 1..n |-> 1]

\* The except clause: np.zeros(len(embeddings), dtype=int).
FallbackLabels(n) == [i \in 1..n |-> 0]

\* The labels fit_predict may return for n articles and k clusters.
Labelings(n, k) ==
    IF n <= MaxArticles THEN [1..n -> 0..(k - 1)]
    ELSE {[i \in 1..n |-> (i - 1) % k]}

\* _name_clusters_lda: one name per label in use.
ClusterNames(labels) == [c \in Range(labels) |-> "Cluster"]

\* [articles[i] for i in range(len(articles)) if clusters[i] == cluster_id]
ClusterArticlesOf(labels, cluster_id) ==
    SelectSeq([i \in 1..Len(labels) |-> i], LAMBDA i : labels[i] = cluster_id)

\* process_articles lines 155-246: one ClusterResult per cluster_id of
\* range(n_clusters) that has articles, n_clusters the number of labels in use.
ProcessedClusters(labels) ==
    LET n_clusters == Cardinality(Range(labels))
        all == [c \in 1..n_clusters |->
                   [cluster_id |-> c - 1,
                    cluster_articles |-> ClusterArticlesOf(labels, c - 1),
                    articles_count |-> Len(ClusterArticlesOf(labels, c - 1))]]
    IN  SelectSeq(all, LAMBDA r : r.cluster_articles # <<>>)

BatchSizes == 0..MaxArticles \cup {10, 79, 80, 299, 300, 400}

RequestedClusters == {0, 2, 3, 15}

\* process_articles is called with n articles; cluster() computes the count.
ClusterArticles ==
    /\ nlp.pc = "idle"
    /\ \E n \in BatchSizes, n_clusters \in RequestedClusters :
           nlp' = [pc |-> "cluster", n |-> n, n_clusters |-> n_clusters,
                   k |-> EffectiveClusters(n_clusters, n)]
    /\ UNCHANGED <<clusters, articles, now, call, last, batch, calls>>

\* The try body runs through: KMeans needs a cluster, PCA two articles.
ClusterFit ==
    /\ nlp.pc = "cluster"
    /\ nlp.k >= 1
    /\ nlp.n >= 2
    /\ \E labels \in Labelings(nlp.n, nlp.k) :
           nlp' = [pc |-> "clustered", n |-> nlp.n, n_clusters |-> nlp.n_clusters,
                   k |-> nlp.k, failed |-> FALSE, labels |-> labels,
                   cluster_names |-> ClusterNames(labels)]
    /\ UNCHANGED <<clusters, articles, now, call, last, batch, calls>>

\* Something in the try body raises: the except clause answers.
ClusterExcept ==
    /\ nlp.pc = "cluster"
    /\ nlp' = [pc |-> "clustered", n |-> nlp.n, n_clusters |-> nlp.n_clusters,
               k |-> nlp.k, failed |-> TRUE, labels |-> FallbackLabels(nlp.n),
               cluster_names |-> [c \in {0} |-> "General News"]]
    /\ UNCHANGED <<clusters, articles, now, call, last, batch, calls>>

\* process_articles builds its ClusterResults from the labels.
ProcessArticles ==
    /\ nlp.pc = "clustered"
    /\ nlp' = [pc |-> "processed", n |-> nlp.n, n_clusters |-> nlp.n_clusters,
               k |-> nlp.k, failed |-> nlp.failed, labels |-> nlp.labels,
               cluster_names |-> nlp.cluster_names,
               cluster_results |-> ProcessedClusters(nlp.labels)]
    /\ UNCHANGED <<clusters, articles, now, call, last, batch, calls>>

NextClusterer ==
    \/ ClusterArticles
    \/ ClusterFit
    \/ ClusterExcept
    \/ ProcessArticles

SpecClusterer == Init /\ [][NextClusterer]_vars

\* articles[start_idx:end_idx], as the positions of the articles in the batch.
Slice(start_idx, end_idx) ==
    IF end_idx > start_idx THEN [j \in 1..(end_idx - start_idx) |-> start_idx + j] ELSE <<>>

\* _group_articles_by_cluster lines 229-271 for a batch of n articles: the
\* cluster at index i of processed_clusters (index() finds it at its own
\* position, the cluster_ids differing) gets the next articles_per_cluster
\* articles of the batch, the last one the rest; empty groups are left out
\* and articles beyond the groups go to the first group.
GroupArticlesByCluster(processed_clusters, n) ==
    IF processed_clusters = <<>> \/ n = 0 THEN <<>>
    ELSE LET articles_per_cluster == Max2(1, n \div Len(processed_clusters))
             start_idx(cluster_index) == cluster_index * articles_per_cluster
             end_idx(cluster_index) ==
                 IF cluster_index = Len(processed_clusters) - 1 THEN n
                 ELSE start_idx(cluster_index) + articles_per_cluster
             all == [i \in 1..Len(processed_clusters) |->
                        [cluster_result |-> processed_clusters[i],
                         articles |-> Slice(Min2(start_idx(i - 1), n),
                                            Min2(end_idx(i - 1), n))]]
             clustered_articles == SelectSeq(all, LAMBDA g : g.articles # <<>>)
             total_assigned ==
                 SumSeq([i \in 1..Len(clustered_articles) |->
                            Len(clustered_articles[i].articles)])
         IN  IF total_assigned < n /\ clustered_articles # <<>>
             THEN [clustered_articles EXCEPT
                      ![1].articles = @ \o Slice(total_assigned, n)]
             ELSE clustered_articles

\* The endpoint pairs the ClusterResults with articles of the batch
\* (cluster_processing.py lines 83-87 and 362-366).
GroupArticles ==
    /\ nlp.pc = "processed"
    /\ nlp' = [pc |-> "grouped", n |-> nlp.n, n_clusters |-> nlp.n_clusters,
               k |-> nlp.k, failed |-> nlp.failed, labels |-> nlp.labels,
               cluster_names |-> nlp.cluster_names,
               cluster_results |-> nlp.cluster_results,
               clustered_articles |-> GroupArticlesByCluster(nlp.cluster_results, nlp.n)]
    /\ UNCHANGED <<clusters, articles, now, call, last, batch, calls>>

NextGrouping ==
    \/ ClusterArticles
    \/ ClusterFit
    \/ ClusterExcept
    \/ ProcessArticles
    \/ GroupArticles

SpecGrouping == Init /\ [][NextGrouping]_vars

---------------------------------------------------------------------------
(* The bullet deduplicator: FactExtractor.merge_similar_bullets.  A bullet  *)
(* is a string, a sequence of characters.  The TF-IDF cosine of two bullets *)
(* is not modelled: the matrix is any symmetric one, in hundredths, handed  *)
(* in with the bullets.                                                     *)

BulletThreshold == 80

BulletStrings == {<<1>>, <<1, 2>>, <<3, 4>>}

Similarities == {0, 80, 100}

Pairs(n) == {p \in (1..n) \X (1..n) : p[1] < p[2]}

\* The bullet the group starts from, whatever the lengths.
RepresentativeFirst(candidates) == candidates[1]

\* max(candidates, key=len): the first of the longest.
Representative(candidates) ==
    LET longest == {i \in 1..Len(candidates) :
                       \A j \in 1..Len(candidates) : Len(candidates[j]) <= Len(candidates[i])}
    IN  candidates[CHOOSE i \in longest : \A j \in longest : i <= j]

\* float(np.mean([1.0] + similarities)), as the fraction num / den of
\* hundredths; 1.0 is 100 / 1.
One == [num |-> 100, den |-> 1]

AvgSimilarity(similarities) ==
    IF similarities = <<>> THEN One
    ELSE [num |-> 100 + SumSeq(similarities), den |-> 1 + Len(similarities)]

\* The loop of lines 90-118 from bullet i on.  groups keeps, for each
\* representative, the indices it stands for (the code keeps them in
\* used_indices only).
RECURSIVE MergeLoop(_, _, _, _, _)
MergeLoop(bullets, similarity_matrix, i, used_indices, out) ==
    IF i > Len(bullets) THEN out
    ELSE IF i \in used_indices
         THEN MergeLoop(bullets, similarity_matrix, i + 1, used_indices, out)
         ELSE LET similar_indices ==
                      SortedSeq({j \in (i + 1)..Len(bullets) :
                                    /\ j \notin used_indices
                                    /\ similarity_matrix[<<i, j>>] >= BulletThreshold})
                  candidates == <<bullets[i]>>
                                    \o [x \in 1..Len(similar_indices) |->
                                            bullets[similar_indices[x]]]
                  similarities == [x \in 1..Len(similar_indices) |->
                                      similarity_matrix[<<i, similar_indices[x]>>]]
              IN  MergeLoop(bullets, similarity_matrix, i + 1,
                            used_indices \cup {i} \cup Range(similar_indices),
                            [merged_bullets |->
                                 Append(out.merged_bullets,
                                        IF similar_indices # <<>>
                                        THEN Representative(candidates)
                                        ELSE bullets[i]),
                             similarity_scores |->
                                 Append(out.similarity_scores,
                                        IF similar_indices # <<>>
                                        THEN AvgSimilarity(similarities)
                                        ELSE One),
                             groups |-> Append(out.groups, <<i>> \o similar_indices)])

\* The results of lines 69 and 125: the bullets as they came, 1.0 each.
Unmerged(bullets) ==
    [merged_bullets |-> bullets,
     similarity_scores |-> [i \in 1..Len(bullets) |-> One],
     groups |-> [i \in 1..Len(bullets) |-> <<i>>]]

MergeSimilarBullets(bullets, similarity_matrix) ==
    IF Len(bullets) <= 1 THEN Unmerged(bullets)
    ELSE MergeLoop(bullets, similarity_matrix, 1, {},
                   [merged_bullets |-> <<>>, similarity_scores |-> <<>>, groups |-> <<>>])

\* merge_similar_bullets is called with at most MaxBullets bullets.
MergeCall ==
    /\ nlp.pc = "idle"
    /\ \E n \in 0..MaxBullets :
           \E bullets \in [1..n -> BulletStrings],
              similarity_matrix \in [Pairs(n) -> Similarities] :
               nlp' = [pc |-> "merge", bullets |-> bullets,
                       similarity_matrix |-> similarity_matrix]
    /\ UNCHANGED <<clusters, articles, now, call, last, batch, calls>>

\* Lines 68-120.
MergeReturn ==
    /\ nlp.pc = "merge"
    /\ nlp' = [pc |-> "merged", bullets |-> nlp.bullets,
               similarity_matrix |-> nlp.similarity_matrix, failed |-> FALSE,
               result |-> MergeSimilarBullets(nlp.bullets, nlp.similarity_matrix)]
    /\ UNCHANGED <<clusters, articles, now, call, last, batch, calls>>

\* Lines 122-125: the vectorizer raises (no word left after the stop words).
MergeExcept ==
    /\ nlp.pc = "merge"
    /\ Len(nlp.bullets) > 1
    /\ nlp' = [pc |-> "merged", bullets |-> nlp.bullets,
               similarity_matrix |-> nlp.similarity_matrix, failed |-> TRUE,
               result |-> Unmerged(nlp.bullets)]
    /\ UNCHANGED <<clusters, articles, now, call, last, batch, calls>>

NextBullets ==
    \/ MergeCall
    \/ MergeReturn
    \/ MergeExcept

SpecBullets == Init /\ [][NextBullets]_vars

---------------------------------------------------------------------------
(* The sentence classifier: FactExtractor.extract.  A sentence is its       *)
(* position in the text and the kinds of indicator phrases it contains.     *)

MaxFactsPerCluster == 15
MaxMusingsPerCluster == 10
MaxContextPerCluster == 10
MaxBackgroundPerCluster == 10

Indicators == {"fact", "context", "background", "opinion"}

Sentence(i, indicators) == [text |-> i, indicators |-> indicators]

\* Texts of n sentences in which one or two kinds of sentence take turns.
SentencePatterns == UNION {[1..m -> SUBSET Indicators] : m \in 1..2}

Texts ==
    {[i \in 1..n |-> Sentence(i, p[((i - 1) % Len(p)) + 1])] :
        n \in 0..MaxSentences, p \in SentencePatterns}

\* _is_factual, _is_context, _is_background, _is_opinion
IsFactual(sentence) == "fact" \in sentence.indicators

IsContext(sentence) == "context" \in sentence.indicators

IsBackground(sentence) == "background" \in sentence.indicators

IsOpinion(sentence) == "opinion" \in sentence.indicators

\* xs[:n]
FirstN(xs, n) == SubSeq(xs, 1, Min2(n, Len(xs)))

\* Lines 45-61: the if / elif chain over the sentences, then the return.
Extract(sentences) ==
    LET facts == SelectSeq(sentences, LAMBDA x :
                     \/ IsFactual(x)
                     \/ ~IsContext(x) /\ ~IsBackground(x) /\ ~IsOpinion(x))
        context == SelectSeq(sentences, LAMBDA x : ~IsFactual(x) /\ IsContext(x))
        background == SelectSeq(sentences, LAMBDA x :
                          ~IsFactual(x) /\ ~IsContext(x) /\ IsBackground(x))
        musings == SelectSeq(sentences, LAMBDA x :
                       /\ ~IsFactual(x) /\ ~IsContext(x) /\ ~IsBackground(x)
                       /\ IsOpinion(x))
    IN  [facts |-> FirstN(facts, MaxFactsPerCluster),
         musings |-> FirstN(musings, MaxMusingsPerCluster),
         context |-> context,
         background |-> background]

\* extract is called on a text.
ExtractCall ==
    /\ nlp.pc = "idle"
    /\ \E sentences \in Texts : nlp' = [pc |-> "extract", sentences |-> sentences]
    /\ UNCHANGED <<clusters, articles, now, call, last, batch, calls>>

ExtractReturn ==
    /\ nlp.pc = "extract"
    /\ nlp' = [pc |-> "extracted", sentences |-> nlp.sentences,
               result |-> Extract(nlp.sentences)]
    /\ UNCHANGED <<clusters, articles, now, call, last, batch, calls>>

NextExtract ==
    \/ ExtractCall
    \/ ExtractReturn

SpecExtract == Init /\ [][NextExtract]_vars

---------------------------------------------------------------------------
(* Properties of the sequential engine (Spec) *)

Merged(w) == last[w].action = "merged" /\ last[w].before # <<>>

Created(w) == last[w].action = "created"

SameSet(xs, ys) == Range(xs) = Range(ys)

IsUnion(merged, xs, ys) == NoDup(merged) /\ Range(merged) = Range(xs) \cup Range(ys)

\* The ids under which the articles of a candidate are stored.
StoredIds(arts) == [i \in 1..Len(arts) |-> FindArticle(articles, arts[i])]

\* C1: every persisted cluster has articles_count equal to the number of
\* distinct ids in its article_ids, after creation and after every merge.
C1_ArticlesCountIsIdSetSize ==
    \A k \in 1..Len(clusters) :
        clusters[k].articles_count = Cardinality(Range(clusters[k].article_ids))

\* C3: a merge leaves in keywords, facts, musings, sources, article_urls and
\* article_ids of the target exactly the elements of the target's previous
\* list and of the candidate's list, each of them once.
C3_MergeIsSetUnion ==
    \A w \in Workers :
        Merged(w) =>
            LET b == last[w].before[1]
                a == last[w].after[1]
                c == last[w].cand
            IN  /\ IsUnion(a.keywords, b.keywords, c.keywords)
                /\ IsUnion(a.facts, b.facts, c.cluster_result.facts)
                /\ IsUnion(a.musings, b.musings, c.cluster_result.musings)
                /\ IsUnion(a.sources, b.sources, ArticleSources(c.articles))
                /\ IsUnion(a.article_urls, b.article_urls, ArticleUrls(c.articles))
                /\ IsUnion(a.article_ids, b.article_ids, StoredIds(c.articles))

\* A merge to which both sides contribute: the stored lists held duplicates,
\* and the merged facts and ids are strictly more than either side had.
C3_Witness ==
    \E w \in Workers :
        /\ Merged(w)
        /\ LET b == last[w].before[1]
               a == last[w].after[1]
               c == last[w].cand
           IN  /\ ~NoDup(b.article_ids) \/ ~NoDup(b.musings)
               /\ Range(a.facts) # Range(b.facts)
               /\ Range(a.facts) # Range(c.cluster_result.facts)
               /\ Range(a.article_ids) # Range(b.article_ids)
               /\ Range(b.article_ids) \cap Range(StoredIds(c.articles)) # {}

\* The candidate of the last merge brought no fact, keyword or source the
\* target did not have.
Contained(w) ==
    /\ Merged(w)
    /\ Range(last[w].cand.cluster_result.facts) \subseteq Range(last[w].before[1].facts)
    /\ Range(last[w].cand.keywords) \subseteq Range(last[w].before[1].keywords)
    /\ Range(ArticleSources(last[w].cand.articles))
           \subseteq Range(last[w].before[1].sources)

\* ... and no musing, URL or article either, nor a longer generated article,
\* and the target's lists held no duplicate.
FullyContained(w) ==
    /\ Contained(w)
    /\ LET b == last[w].before[1]
           c == last[w].cand
       IN  /\ Range(c.cluster_result.musings) \subseteq Range(b.musings)
           /\ Range(ArticleUrls(c.articles)) \subseteq Range(b.article_urls)
           /\ Range(last[w].article_ids) \subseteq Range(b.article_ids)
           /\ Len(c.cluster_result.generated_article) <= Len(b.generated_article)
           /\ b.articles_count = Cardinality(Range(b.article_ids))

\* C4 as claimed: when the candidate is contained in the target, updated_at
\* is the only field of the cluster that the merge changes.
C4_OnlyUpdatedAtChanges ==
    \A w \in Workers :
        FullyContained(w) =>
            LET b == last[w].before[1]
                a == last[w].after[1]
            IN  /\ SameSet(a.keywords, b.keywords)
                /\ SameSet(a.facts, b.facts)
                /\ SameSet(a.musings, b.musings)
                /\ SameSet(a.sources, b.sources)
                /\ SameSet(a.article_ids, b.article_ids)
                /\ SameSet(a.article_urls, b.article_urls)
                /\ a.articles_count = b.articles_count
                /\ a.generated_article = b.generated_article
                /\ a.created_at = b.created_at
                /\ a._id = b._id
                /\ a.embedding = b.embedding

\* C4 as amended: when the candidate's facts, keywords and sources are
\* contained in the target, the merge leaves the keyword, fact and source
\* sets and created_at as they were and sets updated_at to the time of the
\* merge, which is not before the previous updated_at.
C4_ContainedMergeKeepsSets ==
    \A w \in Workers :
        Contained(w) =>
            LET b == last[w].before[1]
                a == last[w].after[1]
            IN  /\ SameSet(a.keywords, b.keywords)
                /\ SameSet(a.facts, b.facts)
                /\ SameSet(a.sources, b.sources)
                /\ a.created_at = b.created_at
                /\ a.updated_at = last[w].at
                /\ a.updated_at >= b.updated_at

\* A contained candidate merged a day after the target was written, which
\* moves the centroid.
C4_Witness ==
    \E w \in Workers :
        /\ FullyContained(w)
        /\ last[w].after[1].updated_at > last[w].before[1].updated_at
        /\ last[w].after[1].embedding # last[w].before[1].embedding

\* (ca * a + cb * b) / (ca + cb)
WeightedAverage(a, ca, b, cb) ==
    Emb([i \in 1..Dim(a) |-> ca * a.num[i] * b.den + cb * b.num[i] * a.den],
        (ca + cb) * a.den * b.den)

\* C5: on a merge with equal embedding dimensions the new centroid is the
\* average of the stored and the candidate embedding weighted by each
\* side's articles_count.
C5_WeightedCentroid ==
    \A w \in Workers :
        (/\ Merged(w)
         /\ Dim(last[w].before[1].embedding) > 0
         /\ Dim(last[w].before[1].embedding) = Dim(last[w].cand.embedding))
        => last[w].after[1].embedding
               = WeightedAverage(last[w].before[1].embedding,
                                 last[w].before[1].articles_count,
                                 last[w].cand.embedding,
                                 last[w].cand.cluster_result.articles_count)

AllIdle == \A w \in Workers : call[w].pc = "idle"

Owners(id) == {k \in 1..Len(clusters) : id \in Range(clusters[k].article_ids)}

\* C10: between calls every stored article is a member of at most one
\* persisted cluster, and its cluster_id names that cluster.
C10_ArticleHasOneOwner ==
    AllIdle =>
        \A j \in 1..Len(articles) :
            /\ Cardinality(Owners(articles[j]._id)) <= 1
            /\ \A k \in Owners(articles[j]._id) :
                   articles[j].cluster_id = clusters[k]._id

---------------------------------------------------------------------------
(* Properties of the candidate search and the decision (SpecGate) *)

Returned(w) == call[w].pc = "idle" /\ last[w].action \in {"created", "merged"}

Score(w, doc) == SimilarityScore(last[w].cand.embedding, last[w].cand.keywords, doc)

\* The clusters the last call of w found persisted, inside the recency window
\* at the time of its search, and those of them that match its candidate.
Recent(w) == {k \in 1..Len(last[w].pre) : InWindow(last[w].pre[k], last[w].at)}

Matching(w) == {k \in Recent(w) : Score(w, last[w].pre[k]) >= SimilarityThreshold}

\* C6: a call that returns has created or merged.  With no matching cluster
\* it has appended one document and changed no other; with a matching
\* cluster it has merged into a cluster whose score is maximal among the
\* matching ones and has changed no other document.
C6_OneTargetOfMaximalScore ==
    \A w \in Workers :
        (Returned(w) /\ ~last[w].force_new) =>
            LET pre == last[w].pre
            IN  IF Matching(w) = {}
                THEN /\ last[w].action = "created"
                     /\ clusters = Append(pre, last[w].after[1])
                     /\ last[w].cluster_id \notin {pre[k]._id : k \in 1..Len(pre)}
                ELSE /\ last[w].action = "merged"
                     /\ Len(clusters) = Len(pre)
                     /\ \E t \in Matching(w) :
                           /\ pre[t]._id = last[w].cluster_id
                           /\ \A k \in Matching(w) : Score(w, pre[t]) >= Score(w, pre[k])
                           /\ \A k \in 1..Len(pre) : k # t => clusters[k] = pre[k]

\* A merge into the second of two matching clusters, which scores higher than
\* the first.
C6_Witness ==
    \E w \in Workers :
        /\ Returned(w)
        /\ last[w].action = "merged"
        /\ \E j, t \in Matching(w) :
              /\ j < t
              /\ last[w].pre[t]._id = last[w].cluster_id
              /\ Score(w, last[w].pre[t]) > Score(w, last[w].pre[j])
              /\ clusters[t] # last[w].pre[t]

Identical(c, doc) ==
    Range(c.keywords) = Range(doc.keywords) /\ c.embedding = doc.embedding

Opposite(c, doc) ==
    /\ Range(c.keywords) \cap Range(doc.keywords) = {}
    /\ Dim(c.embedding) = Dim(doc.embedding)
    /\ Dot(c.embedding.num, doc.embedding.num) = 0

NonZero(e) == \E i \in 1..Dim(e) : e.num[i] # 0

\* C7 as claimed: whatever the keyword set and the embedding, a candidate
\* identical to a cluster inside the window scores 1.0 and is merged into it,
\* and a candidate with disjoint keywords and an orthogonal embedding scores
\* 0.0 and a new cluster is created.
C7_GateForEveryFingerprint ==
    \A w \in Workers :
        (Returned(w) /\ ~last[w].force_new) =>
            \A k \in Recent(w) :
                LET doc == last[w].pre[k]
                IN  /\ Identical(last[w].cand, doc) =>
                           /\ Score(w, doc) = KeywordWeight + EmbeddingWeight
                           /\ last[w].action = "merged"
                           /\ last[w].cluster_id = doc._id
                    /\ Opposite(last[w].cand, doc) =>
                           /\ Score(w, doc) = 0
                           /\ last[w].action = "created"

\* C7 as amended: a candidate whose keyword set is not empty and whose
\* embedding is not all zero, identical in both to a cluster inside the
\* window, scores 1.0 and is merged, into a cluster that scores 1.0; a
\* candidate with disjoint keywords and an orthogonal embedding scores 0.0
\* against the cluster and is not merged into it.
C7_GateForNonEmptyFingerprint ==
    \A w \in Workers :
        (Returned(w) /\ ~last[w].force_new) =>
            \A k \in Recent(w) :
                LET doc == last[w].pre[k]
                    c == last[w].cand
                IN  /\ (Identical(c, doc) /\ c.keywords # <<>> /\ NonZero(c.embedding)) =>
                           /\ Score(w, doc) = KeywordWeight + EmbeddingWeight
                           /\ last[w].action = "merged"
                           /\ \E t \in Matching(w) :
                                  /\ last[w].pre[t]._id = last[w].cluster_id
                                  /\ Score(w, last[w].pre[t]) = Score(w, doc)
                    /\ Opposite(c, doc) =>
                           /\ Score(w, doc) = 0
                           /\ last[w].cluster_id # doc._id

\* A candidate merged into the cluster it is identical to, while a cluster of
\* disjoint keywords and orthogonal embedding is inside the window too.
C7_Witness ==
    \E w \in Workers :
        /\ Returned(w)
        /\ \E j, k \in Recent(w) :
              /\ Identical(last[w].cand, last[w].pre[k])
              /\ last[w].cand.keywords # <<>>
              /\ NonZero(last[w].cand.embedding)
              /\ last[w].cluster_id = last[w].pre[k]._id
              /\ Opposite(last[w].cand, last[w].pre[j])
              /\ NonZero(last[w].pre[j].embedding)

---------------------------------------------------------------------------
(* Properties of concurrent merges (SpecConc) *)

SubList(xs, ys) == Range(xs) \subseteq Range(ys)

\* What a merge call brings, and what a document holds, set by set.
Contributes(c, ids, doc) ==
    /\ SubList(c.keywords, doc.keywords)
    /\ SubList(c.cluster_result.facts, doc.facts)
    /\ SubList(c.cluster_result.musings, doc.musings)
    /\ SubList(NewSources(c.articles), doc.sources)
    /\ SubList(ArticleUrls(c.articles), doc.article_urls)
    /\ SubList(ids, doc.article_ids)

Holds(old, doc) ==
    /\ SubList(old.keywords, doc.keywords)
    /\ SubList(old.facts, doc.facts)
    /\ SubList(old.musings, doc.musings)
    /\ SubList(old.sources, doc.sources)
    /\ SubList(old.article_urls, doc.article_urls)
    /\ SubList(old.article_ids, doc.article_ids)

\* C2: once two processes have both merged a candidate into the same
\* cluster, the cluster's keyword, fact, musing, source, URL and member-id
\* sets contain what it held before either merge and what both candidates
\* brought, however the two read-then-write sequences interleaved.
C2_ConcurrentMergesKeepBoth ==
    \A v, w \in Workers :
        (/\ v # w
         /\ AllIdle
         /\ Merged(v) /\ Merged(w)
         /\ last[v].cluster_id = last[w].cluster_id) =>
            LET doc == FindCluster(clusters, last[w].cluster_id)[1]
            IN  /\ Contributes(last[v].cand, last[v].article_ids, doc)
                /\ Contributes(last[w].cand, last[w].article_ids, doc)
                /\ Holds(last[v].existing, doc)
                /\ Holds(last[w].existing, doc)

---------------------------------------------------------------------------
(* Properties of the batch endpoints (SpecBatch) *)

Entries(b, actions) ==
    {i \in 1..Len(b.storage_results) : b.storage_results[i].action \in actions}

\* C8: a batch in which a call raised still hands over every candidate and
\* returns; its response reports each call that raised as a "failed" entry,
\* and every cluster it reports as created or merged is stored.
C8_FailureIsReportedNotFatal ==
    \A w \in Workers :
        batch[w].pc = "returned" =>
            /\ batch[w].queue = <<>>
            /\ Cardinality(Entries(batch[w], {"failed"})) = batch[w].raised
            /\ \A i \in Entries(batch[w], {"created", "merged"}) :
                   FindCluster(clusters, batch[w].storage_results[i].cluster_id) # <<>>

\* C9: the response of either endpoint has one entry per candidate handed to
\* the engine, each created, merged or failed, and clusters_stored +
\* clusters_merged + the number of failed entries is the number of candidates.
C9_OneOutcomePerCandidate ==
    \A w \in Workers :
        batch[w].pc = "returned" =>
            /\ Len(batch[w].storage_results) = batch[w].handed
            /\ Entries(batch[w], {"created", "merged", "failed"})
                   = 1..Len(batch[w].storage_results)
            /\ batch[w].clusters_stored + batch[w].clusters_merged
                   + Cardinality(Entries(batch[w], {"failed"})) = batch[w].handed

---------------------------------------------------------------------------
(* Further properties of the sequential engine (Spec) *)

\* C11: the article store holds at most one document per title and source,
\* and a call that returns lists, for each of its articles, the id of the
\* stored article of that title and source in the cluster it wrote.
C11_OneArticlePerTitleAndSource ==
    /\ \A i, j \in 1..Len(articles) :
           (articles[i].title = articles[j].title
            /\ articles[i].source = articles[j].source) => i = j
    /\ \A w \in Workers :
           (last[w].action \in {"created", "merged"} /\ last[w].after # <<>>) =>
               /\ last[w].article_ids = StoredIds(last[w].cand.articles)
               /\ Range(last[w].article_ids) \subseteq Range(last[w].after[1].article_ids)

\* A call whose two articles share title and source, the first of them
\* stored by an earlier call: nothing is inserted, the stored id is listed.
C11_Witness ==
    \E w \in Workers :
        /\ last[w].action = "created"
        /\ Len(last[w].cand.articles) = 2
        /\ Len(articles) = 1
        /\ \A i \in 1..2 : last[w].article_ids[i] = articles[1]._id
        /\ articles[1]._id \div 10 # last[w].cluster_id \div 10

\* C12: a call that returns "created" had no matching cluster in the window
\* or was forced new, and has added exactly one cluster; a call that returns
\* "merged" has added none, has made the target's facts the union of its
\* old facts and the candidate's, and has not decreased its articles_count.
C12_CreatedAddsOneMergedAddsNone ==
    \A w \in Workers :
        Returned(w) =>
            /\ last[w].action = "created" =>
                   /\ last[w].force_new \/ Matching(w) = {}
                   /\ Len(clusters) = Len(last[w].pre) + 1
            /\ last[w].action = "merged" =>
                   /\ Len(clusters) = Len(last[w].pre)
                   /\ Range(last[w].after[1].facts)
                          = Range(last[w].before[1].facts)
                                \cup Range(last[w].cand.cluster_result.facts)
                   /\ last[w].after[1].articles_count
                          >= last[w].before[1].articles_count

---------------------------------------------------------------------------
(* Properties over the life of a cluster (SpecLife) *)

\* C13: every stored cluster has updated_at >= created_at; a merge sets
\* updated_at to the time of the merge and leaves created_at as it was, the
\* second and third merge into a cluster as the first.
C13_CreatedAtKeptUpdatedAtLater ==
    /\ \A k \in 1..Len(clusters) : clusters[k].updated_at >= clusters[k].created_at
    /\ \A w \in Workers :
           Merged(w) =>
               /\ last[w].after[1].updated_at = last[w].at
               /\ last[w].after[1].created_at = last[w].before[1].created_at

\* A second merge into a cluster, each merge a day after the last write.
C13_Witness ==
    \E w \in Workers :
        /\ Merged(w)
        /\ last[w].before[1].updated_at > last[w].before[1].created_at
        /\ last[w].after[1].updated_at > last[w].before[1].updated_at

\* C14: a merge leaves the length of the target's embedding as it was, so
\* the length a cluster was created with is the length it has after any
\* number of merges.
C14_EmbeddingLengthKept ==
    \A w \in Workers :
        Merged(w) =>
            Dim(last[w].after[1].embedding) = Dim(last[w].before[1].embedding)

\* A second merge into a cluster while a cluster of the same keywords and an
\* embedding of another length is inside the window.
C14_Witness ==
    \E w \in Workers :
        /\ Returned(w)
        /\ Merged(w)
        /\ last[w].before[1].updated_at > last[w].before[1].created_at
        /\ \E k \in Recent(w) :
               /\ Dim(last[w].pre[k].embedding) # Dim(last[w].cand.embedding)
               /\ Range(last[w].pre[k].keywords) = Range(last[w].cand.keywords)

\* C15: a merge stores the candidate's generated article when it is strictly
\* longer than the stored one and keeps the stored one otherwise, so the
\* stored article never gets shorter.
C15_NarrativeReplacedOnlyByLonger ==
    \A w \in Workers :
        Merged(w) =>
            LET old == last[w].before[1].generated_article
                new == last[w].cand.cluster_result.generated_article
                kept == last[w].after[1].generated_article
            IN  /\ kept = IF Len(new) > Len(old) THEN new ELSE old
                /\ Len(kept) >= Len(old)

\* A merge of a candidate whose article is as long as the stored one and
\* not the same article: the stored one stays.
C15_Witness ==
    \E w \in Workers :
        /\ Merged(w)
        /\ LET old == last[w].before[1].generated_article
               new == last[w].cand.cluster_result.generated_article
           IN  /\ Len(new) = Len(old)
               /\ new # old
               /\ old # <<>>
               /\ last[w].after[1].generated_article = old

---------------------------------------------------------------------------
(* Properties of the batch clusterer (SpecClusterer) *)

Members(r) == Range(r.cluster_articles)

RECURSIVE SumCounts(_)
SumCounts(rs) == IF rs = <<>> THEN 0 ELSE Head(rs).articles_count + SumCounts(Tail(rs))

\* C16: whatever labels the clusterer returns, the candidates' articles
\* partition the batch, their articles_count add up to the number of
\* articles, and there is one candidate per label in use.
C16_CandidatesPartitionTheBatch ==
    nlp.pc = "processed" =>
        LET rs == nlp.cluster_results
        IN  /\ \A i \in 1..nlp.n :
                   Cardinality({c \in 1..Len(rs) : i \in Members(rs[c])}) = 1
            /\ SumCounts(rs) = nlp.n
            /\ Len(rs) = Cardinality(Range(nlp.labels))

Clamp(x, lo, hi) == IF x < lo THEN lo ELSE IF x > hi THEN hi ELSE x

\* C17: the count handed to the partitioning step is
\* min(clamp(N / 20, MIN, MAX), N) when none is requested and min(k, N) when
\* k is requested; it is at most N, and for ten articles and no request it
\* lies between MIN_CLUSTERS and min(MAX_CLUSTERS, 10).
C17_EffectiveClusterCount ==
    nlp.pc # "idle" =>
        /\ nlp.n_clusters = 0 =>
               \/ nlp.k = Clamp(nlp.n \div 20, MinClusters, MaxClusters)
                      /\ nlp.k <= nlp.n
               \/ nlp.k = nlp.n
                      /\ nlp.n <= Clamp(nlp.n \div 20, MinClusters, MaxClusters)
        /\ nlp.n_clusters # 0 =>
               \/ nlp.k = nlp.n_clusters /\ nlp.k <= nlp.n
               \/ nlp.k = nlp.n /\ nlp.n <= nlp.n_clusters
        /\ nlp.k <= nlp.n
        /\ (nlp.n = 10 /\ nlp.n_clusters = 0) =>
               /\ nlp.k >= MinClusters
               /\ nlp.k <= MaxClusters
               /\ nlp.k <= 10

\* A batch large enough for N / 20 to pass MIN_CLUSTERS, none requested.
C17_Witness ==
    /\ nlp.pc = "clustered"
    /\ nlp.n_clusters = 0
    /\ nlp.k > MinClusters
    /\ nlp.k < MaxClusters

\* C18: when the clustering raises, the clusterer answers with label 0 for
\* each of the N articles and the one name "General News", and the pipeline
\* goes on to build one candidate holding all of them.
C18_FallbackIsOneGroup ==
    (nlp.pc \in {"clustered", "processed"} /\ nlp.failed) =>
        /\ nlp.labels = [i \in 1..nlp.n |-> 0]
        /\ DOMAIN nlp.cluster_names = {0}
        /\ nlp.cluster_names[0] = "General News"
        /\ (nlp.pc = "processed" /\ nlp.n > 0) =>
               /\ Len(nlp.cluster_results) = 1
               /\ Members(nlp.cluster_results[1]) = 1..nlp.n
               /\ nlp.cluster_results[1].articles_count = nlp.n

\* The fallback taken for a batch of several articles and processed.
C18_Witness ==
    /\ nlp.pc = "processed"
    /\ nlp.failed
    /\ nlp.n > 1
    /\ nlp.k > 1

---------------------------------------------------------------------------
(* Properties of the bullet deduplicator (SpecBullets) *)

\* C19: the representatives are no more than the bullets and each is one of
\* the bullets; every bullet is in exactly one group; a representative is a
\* longest bullet of its group; the groups come in the order of their first
\* bullets; there is one score per representative, 1.0 for a group of one.
C19_RepresentativesCoverTheBullets ==
    nlp.pc = "merged" =>
        LET bullets == nlp.bullets
            merged == nlp.result.merged_bullets
            scores == nlp.result.similarity_scores
            groups == nlp.result.groups
        IN  /\ Len(merged) <= Len(bullets)
            /\ Len(groups) = Len(merged)
            /\ Len(scores) = Len(merged)
            /\ \A i \in 1..Len(bullets) :
                   Cardinality({g \in 1..Len(groups) : i \in Range(groups[g])}) = 1
            /\ \A g \in 1..Len(groups) :
                   /\ Range(groups[g]) \subseteq 1..Len(bullets)
                   /\ \E i \in Range(groups[g]) : merged[g] = bullets[i]
                   /\ \A i \in Range(groups[g]) : Len(bullets[i]) <= Len(merged[g])
                   /\ Cardinality(Range(groups[g])) = 1 =>
                          scores[g].num = 100 * scores[g].den
            /\ \A g, h \in 1..Len(groups) :
                   g < h => \E i \in Range(groups[g]) :
                                \A j \in Range(groups[h]) : i < j

\* Three bullets of which the first and the third are merged, the third the
\* longer one, and the second stays alone.
C19_Witness ==
    /\ nlp.pc = "merged"
    /\ ~nlp.failed
    /\ Len(nlp.bullets) = 3
    /\ nlp.result.groups = <<(<<1, 3>>), (<<2>>)>>
    /\ Len(nlp.bullets[3]) > Len(nlp.bullets[1])
    /\ nlp.result.merged_bullets = <<nlp.bullets[3], nlp.bullets[2]>>

---------------------------------------------------------------------------
(* Properties of the sentence classifier (SpecExtract) *)

\* The class of a sentence by the precedence factual > context > background
\* > opinion, Fact when no indicator matches.
Class(sentence) ==
    IF "fact" \in sentence.indicators THEN "Fact"
    ELSE IF "context" \in sentence.indicators THEN "Context"
    ELSE IF "background" \in sentence.indicators THEN "Background"
    ELSE IF "opinion" \in sentence.indicators THEN "Musing"
    ELSE "Fact"

OfClass(sentences, class) == SelectSeq(sentences, LAMBDA x : Class(x) = class)

\* C20: each of the four lists extract returns is the sentences of its
\* class, in the order of the text, cut to the first N of them, N the
\* maximum configured for the list.
C20_ClassifiedAndCapped ==
    nlp.pc = "extracted" =>
        /\ nlp.result.facts
               = FirstN(OfClass(nlp.sentences, "Fact"), MaxFactsPerCluster)
        /\ nlp.result.musings
               = FirstN(OfClass(nlp.sentences, "Musing"), MaxMusingsPerCluster)
        /\ nlp.result.context
               = FirstN(OfClass(nlp.sentences, "Context"), MaxContextPerCluster)
        /\ nlp.result.background
               = FirstN(OfClass(nlp.sentences, "Background"), MaxBackgroundPerCluster)

---------------------------------------------------------------------------
(* Properties of concurrent creation (SpecTwin) *)

\* The store was empty and two processes have each stored one candidate,
\* the two of the same fingerprint.
TwoCallsOneStory(v, w) ==
    /\ v # w
    /\ AllIdle
    /\ calls = 2
    /\ Returned(v) /\ Returned(w)
    /\ last[v].cand.keywords = last[w].cand.keywords
    /\ last[v].cand.embedding = last[w].cand.embedding

---------------------------------------------------------------------------
(* Properties of forced creation and of the window (Spec, SpecGate) *)

\* C22: a call with force_new has searched for no candidate, has ended in
\* "created" and has left every cluster document it found as it was, the new
\* one appended after them.
C22_ForceNewOnlyCreates ==
    \A w \in Workers :
        (call[w].pc = "idle" /\ last[w].action # "none" /\ last[w].force_new) =>
            /\ last[w].similar = <<>>
            /\ last[w].action = "created"
            /\ Len(clusters) = Len(last[w].pre) + 1
            /\ SubSeq(clusters, 1, Len(last[w].pre)) = last[w].pre
            /\ clusters[Len(clusters)]._id = last[w].cluster_id
            /\ last[w].cluster_id \notin {last[w].pre[k]._id : k \in 1..Len(last[w].pre)}

\* A forced creation next to a stored cluster of the same fingerprint that
\* is inside the window.
C22_Witness ==
    \E w \in Workers :
        /\ Returned(w)
        /\ last[w].force_new
        /\ \E k \in Recent(w) :
               /\ Identical(last[w].cand, last[w].pre[k])
               /\ Score(w, last[w].pre[k]) >= SimilarityThreshold

\* The clusters the last call of w found persisted whose creation was more
\* than the window before its search.
Old(w) == {k \in 1..Len(last[w].pre) : last[w].pre[k].created_at < last[w].at - DaysBack}

\* C23: a cluster created more than seven days before the search is no merge
\* target and is left as it was, whatever its last update; a candidate whose
\* matching clusters are all that old ends in "created".
C23_OldClusterIsNoTarget ==
    \A w \in Workers :
        Returned(w) =>
            /\ \A k \in Old(w) :
                   /\ last[w].cluster_id # last[w].pre[k]._id
                   /\ clusters[k] = last[w].pre[k]
                   /\ \A i \in 1..Len(last[w].similar) :
                          last[w].similar[i].cluster_id # last[w].pre[k]._id
            /\ (\A k \in 1..Len(last[w].pre) :
                    Score(w, last[w].pre[k]) >= SimilarityThreshold => k \in Old(w))
                   => Created(w)

\* A candidate created next to a matching cluster that is older than the
\* window and that a merge updated inside the window.
C23_Witness ==
    \E w \in Workers :
        /\ Returned(w)
        /\ Created(w)
        /\ \E k \in Old(w) :
               /\ Score(w, last[w].pre[k]) >= SimilarityThreshold
               /\ last[w].pre[k].updated_at >= last[w].at - DaysBack
               /\ last[w].pre[k].updated_at > last[w].pre[k].created_at

\* The stored cluster a hit of the candidate search stands for.
HitDoc(w, hit) ==
    CHOOSE doc \in Range(last[w].pre) : doc._id = hit.cluster_id

\* C24: the hits of the candidate search are in descending order of score and,
\* among hits of one score, the cluster updated later comes first; the merge
\* target is the first hit, so among the top scores the one updated last.
C24_TiesGoToLatestUpdate ==
    \A w \in Workers :
        (Returned(w) /\ last[w].similar # <<>>) =>
            LET similar == last[w].similar
            IN  /\ \A i, j \in 1..Len(similar) :
                       i < j =>
                           \/ similar[i].similarity_score > similar[j].similarity_score
                           \/ /\ similar[i].similarity_score = similar[j].similarity_score
                              /\ HitDoc(w, similar[i]).updated_at >= HitDoc(w, similar[j]).updated_at
                /\ last[w].cluster_id = similar[1].cluster_id
                /\ \A k \in Matching(w) :
                       Score(w, last[w].pre[k]) = similar[1].similarity_score
                           => last[w].pre[k].updated_at <= HitDoc(w, similar[1]).updated_at

---------------------------------------------------------------------------
(* Properties of the order of writes in a creation (Spec) *)

ArticleIdsStored == {articles[j]._id : j \in 1..Len(articles)}

ClusterIdsStored == {clusters[k]._id : k \in 1..Len(clusters)}

\* C25: a creation stores the articles, then the cluster document that lists
\* their ids, then the back-references.  While the articles are being stored
\* the cluster document is absent; once it is inserted it lists the ids
\* gathered, all of stored articles, and the articles this call inserted have
\* no owner yet; when the creation has returned every listed id is of a stored
\* article whose cluster_id is the new cluster.  No cluster document ever lists
\* the id of an article that is not stored.
C25_CreateWritesInOrder ==
    /\ \A w \in Workers :
        LET c == call[w]
            id == ObjectId(c.n, 0)
        IN  /\ (c.pc \in {"article_find_one", "article_insert_one", "create_insert_one"}
                    /\ c.branch = "create")
                   => id \notin ClusterIdsStored
            /\ c.pc = "create_insert_one"
                   => /\ Len(c.article_ids) = Len(c.cand.articles)
                      /\ Range(c.article_ids) \subseteq ArticleIdsStored
            /\ c.pc = "create_update_many"
                   => /\ \E k \in 1..Len(clusters) :
                             /\ clusters[k]._id = id
                             /\ clusters[k].article_ids = c.article_ids
                      /\ \A j \in 1..Len(articles) :
                             articles[j]._id \div 10 = c.n => articles[j].cluster_id = 0
            /\ (c.pc = "idle" /\ Created(w))
                   => \A a \in Range(last[w].after[1].article_ids) :
                          \E j \in 1..Len(articles) :
                              /\ articles[j]._id = a
                              /\ articles[j].cluster_id = last[w].cluster_id
    /\ \A k \in 1..Len(clusters) : Range(clusters[k].article_ids) \subseteq ArticleIdsStored

\* A creation that has returned with two members, one it inserted and one an
\* earlier call had stored.
C25_Witness ==
    \E w \in Workers :
        /\ call[w].pc = "idle"
        /\ Created(w)
        /\ \E a, b \in Range(last[w].after[1].article_ids) :
               /\ a \div 10 = last[w].cluster_id \div 10
               /\ b \div 10 # last[w].cluster_id \div 10

---------------------------------------------------------------------------
(* Properties of the retention sweep (SpecSweep) *)

Swept(w) == last[w].action = "swept"

Ids(db) == {db[k]._id : k \in 1..Len(db)}

\* The clusters of db that list the article id a.
Listing(db, a) == {k \in 1..Len(db) : a \in Range(db[k].article_ids)}

\* C26: a sweep has deleted the clusters created before its cutoff and no
\* other, has left the surviving ones as they were, has deleted only articles
\* that no surviving cluster listed, and no surviving cluster lists a deleted
\* article.
C26_SweepDeletesOnlyOwnedArticles ==
    \A w \in Workers :
        Swept(w) =>
            LET r == last[w]
                old == {k \in 1..Len(r.pre) : r.pre[k].created_at < r.at - r.days_to_keep}
                kept == SelectSeq(r.pre, LAMBDA c : c.created_at >= r.at - r.days_to_keep)
                deleted == Ids(r.pre_articles) \ Ids(r.after_articles)
            IN  /\ r.after = kept
                /\ \A a \in deleted : Listing(r.pre, a) \subseteq old
                /\ \A k \in 1..Len(r.after) : Range(r.after[k].article_ids) \cap deleted = {}

---------------------------------------------------------------------------
(* Properties of failures in a batch (SpecBatch) *)

Ended(w) == call[w].pc = "idle" /\ last[w].action # "none"

\* C27: a call in which a storage operation failed, the read of the candidate
\* search included, has ended in "failed": it has not ended in "created" and
\* has added no cluster to the ones it found.
C27_FailedSearchIsFailedCall ==
    \A w \in Workers :
        (Ended(w) /\ last[w].search_failed) =>
            /\ last[w].action = "failed"
            /\ Ids(clusters) \subseteq Ids(last[w].pre)

\* C29: a call that has ended in "failed" has left both collections as it
\* found them: every stored article was stored before the call, so none it
\* inserted is left without an owning cluster, and every cluster is as it was.
C29_FailedCallLeavesNoTrace ==
    \A w \in Workers :
        (Ended(w) /\ last[w].action = "failed") =>
            /\ articles = last[w].pre_articles
            /\ clusters = last[w].pre
            /\ \A j \in 1..Len(articles) : articles[j].cluster_id \in Ids(clusters)

---------------------------------------------------------------------------
(* Properties of embeddings of different lengths (SpecLife) *)

\* The clusters the last call of w found persisted whose embedding has another
\* length than the candidate's.
OtherLength(w) ==
    {k \in 1..Len(last[w].pre) :
        Dim(last[w].pre[k].embedding) # Dim(last[w].cand.embedding)}

\* C28: a stored cluster whose embedding has another length than the
\* candidate's does not stop the call, which returns; it scores at most the
\* keyword weight, is no hit of the search, is not the merge target and is
\* left as it was, even with the candidate's keywords.
C28_OtherLengthIsNoMatch ==
    \A w \in Workers :
        (Ended(w) /\ OtherLength(w) # {}) =>
            /\ Returned(w)
            /\ \A k \in OtherLength(w) :
                   /\ Score(w, last[w].pre[k]) <= KeywordWeight
                   /\ \A i \in 1..Len(last[w].similar) :
                          last[w].similar[i].cluster_id # last[w].pre[k]._id
                   /\ last[w].cluster_id # last[w].pre[k]._id
                   /\ clusters[k] = last[w].pre[k]

\* A candidate created next to a cluster inside the window that has its
\* keywords and an embedding of another length, and scores the keyword weight.
C28_Witness ==
    \E w \in Workers :
        /\ Returned(w)
        /\ Created(w)
        /\ \E k \in OtherLength(w) \cap Recent(w) :
               /\ last[w].pre[k].keywords = last[w].cand.keywords
               /\ Score(w, last[w].pre[k]) = KeywordWeight

---------------------------------------------------------------------------
(* Properties of the grouping of a batch (SpecGrouping) *)

\* C30: every candidate is paired with the articles the clusterer put in its
\* group, so its articles_count is the number of articles passed with it, and
\* the groups passed partition the batch.
C30_GroupsAreTheClusterersGroups ==
    nlp.pc = "grouped" =>
        LET groups == nlp.clustered_articles
        IN  /\ \A i \in 1..Len(groups) :
                   /\ groups[i].articles = groups[i].cluster_result.cluster_articles
                   /\ groups[i].cluster_result.articles_count = Len(groups[i].articles)
            /\ \A j \in 1..nlp.n :
                   Cardinality({i \in 1..Len(groups) : j \in Range(groups[i].articles)}) = 1

====
